---- MODULE Spec2Model ----
(***************************************************************************)
(* State-machine model of virtinst/VirtualNetworkInterface.py: the virtual *)
(* network interface device, its lazily defaulted MAC address and bridge,  *)
(* the MAC allocator (generate_mac / _random_mac), the conflict check      *)
(* (is_conflict_net), pre-flight setup and the XML fragment it renders.    *)
(*                                                                         *)
(* Python values are modelled as sequences of text chunks: a str is the    *)
(* sequence of its pieces (MAC addresses and driver names one character    *)
(* per piece, because str.lower() acts on characters), "" is << >>, and    *)
(* None / False are two reserved one-piece sequences.                      *)
(***************************************************************************)
EXTENDS Integers, Sequences, FiniteSets, TLC

VARIABLES
    hasConn,      \* truth value of self.conn (a connection handle was given)
    connType,     \* what conn.getType() returns
    predictable,  \* hasattr(conn, "_virtinst__fake_conn_predictable")
    guests,       \* host: guest -> [state, nics]; nics are interface MACs
    nets,         \* host: network name -> "absent" | "inactive" | "active"
    hostBridge,   \* host: what util.default_bridge(conn) finds now
    alive,        \* a VirtualNetworkInterface object exists
    self,         \* the object's attributes
    pc,           \* "idle", or "gen" while a generate_mac call is in its loop
    tries,        \* iterations of that loop started in the last such call
    nconf,        \* how many of them found a conflict
    op,           \* the last operation that completed
    ret,          \* what it returned
    raised,       \* the exception it raised, or None
    warned,       \* it called logging.warning
    genCalls,     \* generate_mac invocations made for this object
    lookups,      \* util.default_bridge invocations made for this object
    hist          \* observations kept for the properties below

vars == <<hasConn, connType, predictable, guests, nets, hostBridge, alive,
          self, pc, tries, nconf, op, ret, raised, warned, genCalls,
          lookups, hist>>

hostVars == <<hasConn, connType, predictable, guests, nets, hostBridge>>
loopVars == <<pc, tries, nconf>>

(***************************************************************************)
(* Python values                                                           *)
(***************************************************************************)
None == <<"<None>">>
PyFalse == <<"<False>">>
Empty == << >>

\* bool(v) for the values that occur here: None, False and "" are false.
Truthy(v) == v # None /\ v # PyFalse /\ v # Empty

\* "%s" % v
PyStr(v) == IF v = None THEN <<"None">> ELSE IF v = PyFalse THEN <<"False">> ELSE v

\* a or b
PyOr(a, b) == IF Truthy(a) THEN a ELSE b

LowerChar(c) ==
    CASE c = "A" -> "a" [] c = "B" -> "b" [] c = "C" -> "c" [] c = "D" -> "d"
      [] c = "E" -> "e" [] c = "F" -> "f" [] c = "M" -> "m" [] c = "N" -> "n"
      [] c = "Q" -> "q" [] c = "U" -> "u" [] c = "X" -> "x" [] c = "Z" -> "z"
      [] OTHER -> c

\* str.lower()
Lower(s) == [i \in 1..Len(s) |-> LowerChar(s[i])]

HexDigits == <<"0", "1", "2", "3", "4", "5", "6", "7",
               "8", "9", "a", "b", "c", "d", "e", "f">>

\* "%02x" % x
Fmt02x(x) == <<HexDigits[(x \div 16) + 1], HexDigits[(x % 16) + 1]>>

\* ':'.join(["%02x" % x for x in mac]) for the six octets of mac
JoinMac(mac) ==
    Fmt02x(mac[1]) \o <<":">> \o Fmt02x(mac[2]) \o <<":">> \o Fmt02x(mac[3])
        \o <<":">> \o Fmt02x(mac[4]) \o <<":">> \o Fmt02x(mac[5]) \o <<":">>
        \o Fmt02x(mac[6])

(***************************************************************************)
(* Class constants                                                         *)
(***************************************************************************)
TYPE_BRIDGE == <<"bridge">>
TYPE_VIRTUAL == <<"network">>
TYPE_USER == <<"user">>
TYPE_ETHERNET == <<"ethernet">>
TYPE_DIRECT == <<"direct">>
network_types == {TYPE_BRIDGE, TYPE_VIRTUAL, TYPE_USER, TYPE_ETHERNET, TYPE_DIRECT}

\* range(256) in generate_mac
MaxTries == 256

PredictableMac == JoinMac(<<0, 17, 34, 51, 68, 85>>)

ValueError == <<"ValueError">>
RuntimeError == <<"RuntimeError">>

(***************************************************************************)
(* Bounds of the model and the values the operations are tried on          *)
(***************************************************************************)
NumGuests == 1      \* guests the host may have defined
MaxGenCalls == 2    \* generate_mac invocations followed per object
MaxLookups == 2     \* default-bridge lookups followed per object

Guests == 1..NumGuests

OUI_XEN == <<0, 22, 62>>
OUI_QEMU == <<82, 84, 0>>

\* What the three calls of random.randint(0x00, 0xff) may give.
RandomSuffixes == {<<0, 0, 1>>, <<171, 205, 239>>}

MacQemuAB == JoinMac(OUI_QEMU \o <<171, 205, 239>>)     \* 52:54:00:ab:cd:ef
MacQemu01 == JoinMac(OUI_QEMU \o <<0, 0, 1>>)           \* 52:54:00:00:00:01
MacXenAB == JoinMac(OUI_XEN \o <<171, 205, 239>>)       \* 00:16:3e:ab:cd:ef
MacOther == JoinMac(<<170, 187, 204, 221, 238, 255>>)   \* aa:bb:cc:dd:ee:ff

UpperChar(c) ==
    CASE c = "a" -> "A" [] c = "b" -> "B" [] c = "c" -> "C" [] c = "d" -> "D"
      [] c = "e" -> "E" [] c = "f" -> "F" [] OTHER -> c
Upper(s) == [i \in 1..Len(s) |-> UpperChar(s[i])]

\* Interface lists a defined guest may have (a MAC per interface, None for an
\* interface without one).
NicLists == {<<Upper(MacQemuAB)>>, <<MacOther, MacQemu01>>, <<None>>,
             <<Upper(MacXenAB)>>}

\* Addresses handed to the constructor and to set_macaddr.
MacFive == SubSeq(MacQemuAB, 1, 14)                       \* five octets
MacNonHex == SubSeq(MacQemuAB, 1, 15) \o <<"z", "z">>     \* ...:zz
MacNoColons == SelectSeq(MacQemuAB, LAMBDA c : c # ":")   \* 525400abcdef
GoodMacs == {MacQemuAB, Upper(MacQemuAB), MacOther}
BadMacs == {MacFive, MacNonHex, MacNoColons, Empty}

\* What conn.getType() may return.
ConnTypes == {<<"Q", "E", "M", "U">>, <<"X", "e", "n">>, <<"t", "e", "s", "t">>}

NetNames == {<<"default">>, <<"lab">>}
BridgeNames == {<<"br0">>, <<"xenbr0">>}

(***************************************************************************)
(* The host connection and the collaborators the module calls              *)
(***************************************************************************)
Conn == [type |-> connType, predictable |-> predictable, guests |-> guests,
         nets |-> nets]

\* conn.fetch_all_guests(): every defined guest, running or not.
fetch_all_guests(conn) == {g \in DOMAIN conn.guests : conn.guests[g].state # "undefined"}

\* vm.get_devices("interface"), as the MAC of each interface.
get_devices(conn, g) == conn.guests[g].nics

\* conn.networkLookupByName(name) finds a network (else libvirtError).
networkLookupByName(conn, name) == name \in DOMAIN conn.nets /\ conn.nets[name] # "absent"

\* conn.listNetworks(): the names of the active networks.
listNetworks(conn) == {n \in DOMAIN conn.nets : conn.nets[n] = "active"}

\* util.default_bridge(conn): None, or the pair ["bridge", device].
default_bridge(hb) == IF hb = None THEN None ELSE <<<<"bridge">>, hb>>

IsHexChar(c) == \E i \in 1..Len(HexDigits) : HexDigits[i] = LowerChar(c)

\* util.validate_macaddr(val) accepts val: an absent address, or six
\* colon-separated pairs of hex digits of either case.
validate_macaddr(val) ==
    \/ val = None
    \/ /\ Len(val) = 17
       /\ \A i \in 1..17 : IF i % 3 = 0 THEN val[i] = ":" ELSE IsHexChar(val[i])

(***************************************************************************)
(* _random_mac, is_conflict_net                                            *)
(***************************************************************************)
\* ouis[conn.getType().lower()], falling back to ouis['xen'] on KeyError
OuiFor(conn) ==
    IF Lower(conn.type) = <<"x", "e", "n">> THEN OUI_XEN
    ELSE IF Lower(conn.type) = <<"q", "e", "m", "u">> THEN OUI_QEMU
    ELSE OUI_XEN

\* The addresses one call of _random_mac(conn) may return.
_random_mac(conn) == {JoinMac(OuiFor(conn) \o r) : r \in RandomSuffixes}

ConflictMsg(searchmac) ==
    <<"The MAC address '">> \o searchmac \o <<"' is in use by another virtual machine.">>

\* (is_conflict_net comparing the addresses as they are written)
is_conflict_net_cased(conn, searchmac) ==
    IF searchmac = None THEN <<FALSE, None>>
    ELSE IF \E vm \in fetch_all_guests(conn) :
              \E i \in 1..Len(get_devices(conn, vm)) :
                 PyOr(get_devices(conn, vm)[i], Empty) = searchmac
         THEN <<TRUE, ConflictMsg(searchmac)>>
         ELSE <<FALSE, None>>

is_conflict_net(conn, searchmac) ==
    IF searchmac = None THEN <<FALSE, None>>
    ELSE IF \E vm \in fetch_all_guests(conn) :
              \E i \in 1..Len(get_devices(conn, vm)) :
                 LET nicmac == PyOr(get_devices(conn, vm)[i], Empty)
                 IN  Lower(nicmac) = Lower(searchmac)
         THEN <<TRUE, ConflictMsg(searchmac)>>
         ELSE <<FALSE, None>>

(***************************************************************************)
(* The object: attributes, the XML binding, accessors                      *)
(***************************************************************************)
\* The backing XML of an object: what the bound locations hold.
NoXml == [type |-> None, mac |-> None, bridge |-> None, network |-> None,
          dev |-> None, mode |-> None, model |-> None, target |-> None]

\* The attributes __init__ assigns before anything else.
Blank(parse, xml) ==
    [parse |-> parse, xml |-> xml,
     _network |-> None, _bridge |-> None, _macaddr |-> None, _type |-> None,
     _model |-> None, _target_dev |-> None, _source_dev |-> None,
     _source_mode |-> <<"vepa">>, _random_mac |-> None, _default_bridge |-> None]

\* self._is_parse()
_is_parse(o) == o.parse

\* XMLProperty, read: an object built by parsing reads the bound location of
\* its XML; any other object gets what the accessor function returned.
PropGet(o, getval, loc) == IF _is_parse(o) THEN o.xml[loc] ELSE getval

\* The outcome of an accessor or of a setter: the object afterwards, the
\* exception raised (None when it returned), the value returned, and whether
\* it queried the host for the default bridge.
Ok(o, val) == [self |-> o, exc |-> None, val |-> val, looked |-> FALSE]
Raise(o, exc) == [self |-> o, exc |-> exc, val |-> None, looked |-> FALSE]

\* XMLProperty, write: the setter function runs first (it validates); on an
\* object built by parsing the value is then stored at the bound location.
PropSet(r, loc, val) ==
    IF r.exc = None /\ _is_parse(r.self)
    THEN [r EXCEPT !.self.xml = [r.self.xml EXCEPT ![loc] = val]]
    ELSE r

get_type(o) == o._type
type(o) == PropGet(o, get_type(o), "type")

set_type(o, val) ==
    IF val \notin network_types THEN Raise(o, ValueError)
    ELSE Ok([o EXCEPT !._type = val], None)

set_macaddr(o, val) ==
    IF ~validate_macaddr(val) THEN Raise(o, ValueError)
    ELSE Ok([o EXCEPT !._macaddr = val], None)

get_network(o) == o._network
network(o) == PropGet(o, get_network(o), "network")

\* _is_net_active(netobj) of set_network
_is_net_active(conn, hc, name) == IF ~hc THEN TRUE ELSE name \in listNetworks(conn)

\* (set_network without the check that the network is started)
set_network_unstarted(o, conn, hc, newnet) ==
    IF newnet # None /\ hc /\ ~networkLookupByName(conn, newnet)
    THEN Raise(o, ValueError)
    ELSE Ok([o EXCEPT !._network = newnet], None)

set_network(o, conn, hc, newnet) ==
    IF newnet # None /\ hc /\ ~networkLookupByName(conn, newnet)
    THEN Raise(o, ValueError)
    ELSE IF newnet # None /\ hc /\ ~_is_net_active(conn, hc, newnet)
    THEN Raise(o, ValueError)
    ELSE Ok([o EXCEPT !._network = newnet], None)

\* (_generate_default_bridge keeping only a device it found)
_generate_default_bridge_found(o, hb) ==
    LET cached == o._default_bridge
        default == default_bridge(hb)
        result == IF cached = None
                  THEN IF Truthy(default) THEN default[2] ELSE None
                  ELSE cached
    IN  [self |-> [o EXCEPT !._default_bridge = result], exc |-> None,
         val |-> PyOr(result, None), looked |-> (cached = None)]

_generate_default_bridge(o, hb) ==
    LET cached == o._default_bridge
        default == default_bridge(hb)
        result == IF cached = None
                  THEN IF Truthy(default) THEN default[2] ELSE PyFalse
                  ELSE cached
    IN  [self |-> [o EXCEPT !._default_bridge = result], exc |-> None,
         val |-> PyOr(result, None), looked |-> (cached = None)]

get_bridge(o, hb) ==
    IF ~_is_parse(o) /\ ~Truthy(o._bridge) /\ type(o) = TYPE_BRIDGE
    THEN _generate_default_bridge(o, hb)
    ELSE Ok(o, o._bridge)

\* Reading self.bridge through the property.
bridge(o, hb) ==
    LET r == get_bridge(o, hb) IN [r EXCEPT !.val = PropGet(o, r.val, "bridge")]

set_bridge(o, val) == Ok([o EXCEPT !._bridge = val], None)

get_model(o) == o._model
model(o) == PropGet(o, get_model(o), "model")
set_model(o, val) == Ok([o EXCEPT !._model = val], None)

get_target_dev(o) == o._target_dev
target_dev(o) == PropGet(o, get_target_dev(o), "target")
set_target_dev(o, val) == Ok([o EXCEPT !._target_dev = val], None)

get_source_dev(o) == o._source_dev
source_dev(o) == PropGet(o, get_source_dev(o), "dev")
set_source_dev(o, val) == Ok([o EXCEPT !._source_dev = val], None)

get_source_mode(o) == o._source_mode
source_mode(o) == PropGet(o, get_source_mode(o), "mode")
set_source_mode(o, newmode) == Ok([o EXCEPT !._source_mode = newmode], None)

\* Assignments through the properties.
AssignType(o, val) == PropSet(set_type(o, val), "type", val)
AssignMacaddr(o, val) == PropSet(set_macaddr(o, val), "mac", val)
AssignNetwork(o, conn, hc, val) == PropSet(set_network(o, conn, hc, val), "network", val)
AssignBridge(o, val) == PropSet(set_bridge(o, val), "bridge", val)
AssignSourceDev(o, val) == PropSet(set_source_dev(o, val), "dev", val)
AssignModel(o, val) == PropSet(set_model(o, val), "model", val)
AssignTargetDev(o, val) == PropSet(set_target_dev(o, val), "target", val)
AssignSourceMode(o, val) == PropSet(set_source_mode(o, val), "mode", val)

get_source(o, hb) ==
    IF type(o) = TYPE_VIRTUAL THEN Ok(o, network(o))
    ELSE IF type(o) = TYPE_BRIDGE THEN bridge(o, hb)
    ELSE IF type(o) = TYPE_ETHERNET \/ type(o) = TYPE_DIRECT THEN Ok(o, source_dev(o))
    ELSE IF type(o) = TYPE_USER THEN Ok(o, None)
    ELSE LET b == bridge(o, hb)
         IN  IF Truthy(network(o)) THEN Ok(o, network(o))
             ELSE IF Truthy(b.val) THEN b
             ELSE [b EXCEPT !.val = source_dev(o)]

set_source(o, conn, hc, newsource) ==
    IF type(o) = TYPE_VIRTUAL THEN AssignNetwork(o, conn, hc, newsource)
    ELSE IF type(o) = TYPE_BRIDGE THEN AssignBridge(o, newsource)
    ELSE IF type(o) = TYPE_ETHERNET \/ type(o) = TYPE_DIRECT
    THEN AssignSourceDev(o, newsource)
    ELSE Ok(o, None)

\* __init__ on a fresh object, lines 166-171: the assignments in order,
\* stopping at the first that raises.
\* (With parsexml the constructor returns Blank(TRUE, xml) at once.)
init_assignments(conn, hc, macaddr, ty, br, net, mdl) ==
    LET r1 == AssignType(Blank(FALSE, NoXml), ty)
        r2 == IF r1.exc # None THEN r1 ELSE AssignMacaddr(r1.self, macaddr)
        r3 == IF r2.exc # None THEN r2 ELSE AssignBridge(r2.self, br)
        r4 == IF r3.exc # None THEN r3 ELSE AssignSourceDev(r3.self, br)
        r5 == IF r4.exc # None THEN r4 ELSE AssignNetwork(r4.self, conn, hc, net)
    IN  IF r5.exc # None THEN r5 ELSE AssignModel(r5.self, mdl)

\* (__init__ without the check that a virtual network was named)
init_unchecked(conn, hc, macaddr, ty, br, net, mdl) ==
    init_assignments(conn, hc, macaddr, ty, br, net, mdl)

\* __init__ on a fresh object: the assignments, then the check that a
\* virtual network was named.
init(conn, hc, macaddr, ty, br, net, mdl) ==
    LET r == init_assignments(conn, hc, macaddr, ty, br, net, mdl)
    IN  IF r.exc # None THEN r
        ELSE IF type(r.self) = TYPE_VIRTUAL /\ net = None
        THEN Raise(r.self, ValueError)
        ELSE r

\* get_macaddr up to the call of generate_mac: whether that call is made.
\* (get_macaddr generating on a parsed object too)
NeedsGen_parsed(o) == ~Truthy(o._macaddr) /\ ~Truthy(o._random_mac)

NeedsGen(o) == ~(Truthy(o._macaddr) \/ _is_parse(o)) /\ ~Truthy(o._random_mac)

\* get_macaddr's return value once self._random_mac holds what it will hold.
get_macaddr(o) == IF Truthy(o._macaddr) \/ _is_parse(o) THEN o._macaddr ELSE o._random_mac

\* Reading self.macaddr through the property.
macaddr(o) == PropGet(o, get_macaddr(o), "mac")

\* One iteration of generate_mac's loop, the i-th (from 0), having drawn mac:
\* return mac when is_conflict_net gives no description, else go on, and
\* return None after the last iteration.
\* (the loop as range(255))
generate_mac_iter_short(conn, mac, i) ==
    LET r == is_conflict_net(conn, mac)
    IN  IF r[2] = None THEN [done |-> TRUE, val |-> mac, conflict |-> FALSE]
        ELSE IF i + 1 >= MaxTries - 1 THEN [done |-> TRUE, val |-> None, conflict |-> TRUE]
        ELSE [done |-> FALSE, val |-> None, conflict |-> TRUE]

generate_mac_iter(conn, mac, i) ==
    LET r == is_conflict_net(conn, mac)
    IN  IF r[2] = None THEN [done |-> TRUE, val |-> mac, conflict |-> FALSE]
        ELSE IF i + 1 >= MaxTries THEN [done |-> TRUE, val |-> None, conflict |-> TRUE]
        ELSE [done |-> FALSE, val |-> None, conflict |-> TRUE]

\* What a whole call of generate_mac(conn) can return while the host stays as
\* it is: the fixed address on a predictable connection; else an address
\* _random_mac can draw that is_conflict_net passes, or None when every one
\* of the MaxTries draws was of an address it does not pass.
generate_mac(conn) ==
    IF conn.predictable THEN {PredictableMac}
    ELSE {mac \in _random_mac(conn) : is_conflict_net(conn, mac)[2] = None}
         \cup (IF \E mac \in _random_mac(conn) : is_conflict_net(conn, mac)[2] # None
               THEN {None} ELSE {})

\* setup, given the object: the exception raised and whether it warned.
setup(o, conn) ==
    LET r == is_conflict_net(conn, macaddr(o))
    IN  IF Truthy(macaddr(o)) /\ r[2] # None
        THEN IF r[1] = FALSE THEN [exc |-> None, warned |-> TRUE]
             ELSE [exc |-> RuntimeError, warned |-> FALSE]
        ELSE [exc |-> None, warned |-> FALSE]

\* _get_xml_config, as the pieces of text it concatenates.
_get_xml_config(o, hb) ==
    LET src_xml ==
            IF type(o) = TYPE_BRIDGE
            THEN <<"      <source bridge='">> \o PyStr(bridge(o, hb).val) \o <<"'/>\n">>
            ELSE IF type(o) = TYPE_VIRTUAL
            THEN <<"      <source network='">> \o PyStr(network(o)) \o <<"'/>\n">>
            ELSE IF type(o) = TYPE_ETHERNET /\ Truthy(source_dev(o))
            THEN <<"      <source dev='">> \o PyStr(source_dev(o)) \o <<"'/>\n">>
            ELSE IF type(o) = TYPE_DIRECT /\ Truthy(source_dev(o))
            THEN <<"      <source dev='">> \o PyStr(source_dev(o)) \o <<"' mode='">>
                     \o PyStr(source_mode(o)) \o <<"'/>\n">>
            ELSE Empty
        model_xml ==
            IF Truthy(model(o))
            THEN <<"      <model type='">> \o PyStr(model(o)) \o <<"'/>\n">>
            ELSE Empty
        target_xml ==
            IF Truthy(target_dev(o))
            THEN <<"      <target dev='">> \o PyStr(target_dev(o)) \o <<"'/>\n">>
            ELSE Empty
    IN  <<"    <interface type='">> \o PyStr(type(o)) \o <<"'>\n">>
            \o src_xml
            \o <<"      <mac address='">> \o PyStr(macaddr(o)) \o <<"'/>\n">>
            \o target_xml
            \o model_xml
            \o <<"    </interface>">>

(***************************************************************************)
(* Observations the properties are stated on (they do not feed back)       *)
(***************************************************************************)
\* Some interface of a guest in one of the given states has this MAC,
\* compared without regard to case.
InUseBy(mac, states) ==
    \E g \in Guests :
        /\ guests[g].state \in states
        /\ \E i \in 1..Len(guests[g].nics) :
              /\ guests[g].nics[i] # None
              /\ Lower(guests[g].nics[i]) = Lower(mac)

Defined == {"inactive", "active"}

HistInit ==
    [macSet |-> FALSE,        \* a MAC was given to __init__ or set_macaddr ran
     macReads |-> 0,          \* reads of macaddr completed (2: two or more)
     firstMac |-> None,       \* what the first of them returned
     lookupResult |-> None,   \* the bridge the host had at the first lookup
     netChecked |-> FALSE,    \* _network was an active network when assigned
     setupCase |-> "none",    \* whose interface the MAC matched at setup
     genRet |-> None,         \* what the last generate_mac call returned
     genFree |-> TRUE,        \* no defined guest used it at that moment
     chkMac |-> None,         \* the last stand-alone is_conflict_net call:
     chkFatal |-> FALSE,      \*   its candidate, and the pair it returned
     chkMsg |-> None,
     chkInUse |-> FALSE,      \*   and whether a defined guest used it
     ctor |-> <<>>,           \* the arguments of the last constructor call
     argOk |-> TRUE]          \* the last assigned value was one to accept

NoteRead(h, val) ==
    [h EXCEPT !.ctor = <<>>,
              !.macReads = IF @ < 2 THEN @ + 1 ELSE @,
              !.firstMac = IF h.macReads = 0 THEN val ELSE @]

NoteLookup(h, looked) ==
    IF looked /\ lookups = 0 THEN [h EXCEPT !.ctor = <<>>, !.lookupResult = hostBridge]
    ELSE [h EXCEPT !.ctor = <<>>]

NoteGen(h, val) ==
    [h EXCEPT !.genRet = val,
              !.genFree = (val = None \/ ~InUseBy(val, Defined))]

(***************************************************************************)
(* The host changes on its own                                             *)
(***************************************************************************)
DefineGuest(g, nics) ==
    /\ pc = "idle"
    /\ guests[g].state = "undefined"
    /\ guests' = [guests EXCEPT ![g] = [state |-> "inactive", nics |-> nics]]
    /\ UNCHANGED <<hasConn, connType, predictable, nets, hostBridge, alive, self,
                   pc, tries, nconf, op, ret, raised, warned, genCalls,
                   lookups, hist>>

StartGuest(g) ==
    /\ pc = "idle"
    /\ guests[g].state = "inactive"
    /\ guests' = [guests EXCEPT ![g].state = "active"]
    /\ UNCHANGED <<hasConn, connType, predictable, nets, hostBridge, alive, self,
                   pc, tries, nconf, op, ret, raised, warned, genCalls,
                   lookups, hist>>

StopGuest(g) ==
    /\ pc = "idle"
    /\ guests[g].state = "active"
    /\ guests' = [guests EXCEPT ![g].state = "inactive"]
    /\ UNCHANGED <<hasConn, connType, predictable, nets, hostBridge, alive, self,
                   pc, tries, nconf, op, ret, raised, warned, genCalls,
                   lookups, hist>>

UndefineGuest(g) ==
    /\ pc = "idle"
    /\ guests[g].state = "inactive"
    /\ guests' = [guests EXCEPT ![g] = [state |-> "undefined", nics |-> Empty]]
    /\ UNCHANGED <<hasConn, connType, predictable, nets, hostBridge, alive, self,
                   pc, tries, nconf, op, ret, raised, warned, genCalls,
                   lookups, hist>>

NetChange(n, st) ==
    /\ pc = "idle"
    /\ nets[n] # st
    /\ nets' = [nets EXCEPT ![n] = st]
    /\ UNCHANGED <<hasConn, connType, predictable, guests, hostBridge, alive, self,
                   pc, tries, nconf, op, ret, raised, warned, genCalls,
                   lookups, hist>>

BridgeChange(b) ==
    /\ pc = "idle"
    /\ hostBridge # b
    /\ hostBridge' = b
    /\ UNCHANGED <<hasConn, connType, predictable, guests, nets, alive, self,
                   pc, tries, nconf, op, ret, raised, warned, genCalls,
                   lookups, hist>>

(***************************************************************************)
(* Construction and assignments                                            *)
(***************************************************************************)
\* VirtualNetworkInterface(conn, macaddr, type, bridge, network, model)
Construct(mac, ty, br, net, mdl) ==
    /\ pc = "idle" /\ ~alive
    /\ LET r == init(Conn, hasConn, mac, ty, br, net, mdl)
       IN  /\ alive' = (r.exc = None)
           /\ self' = IF r.exc = None THEN r.self ELSE self
           /\ raised' = r.exc
           /\ hist' = [HistInit EXCEPT
                          !.ctor = <<mac, ty, br, net, mdl>>,
                          !.macSet = (mac # None),
                          !.netChecked = (r.exc = None /\ net \in NetNames
                                          /\ nets[net] = "active")]
    /\ op' = "__init__" /\ ret' = None /\ warned' = FALSE
    /\ genCalls' = 0 /\ lookups' = 0
    /\ UNCHANGED <<hostVars, loopVars>>

\* VirtualNetworkInterface(conn, parsexml=...)
Parse(doc) ==
    /\ pc = "idle" /\ ~alive
    /\ alive' = TRUE
    /\ self' = Blank(TRUE, doc)
    /\ raised' = None /\ hist' = HistInit
    /\ op' = "parse" /\ ret' = None /\ warned' = FALSE
    /\ genCalls' = 0 /\ lookups' = 0
    /\ UNCHANGED <<hostVars, loopVars>>

\* An assignment obj.<field> = val whose outcome is r.
Assigned(name, r, h) ==
    /\ pc = "idle" /\ alive
    /\ self' = r.self
    /\ raised' = r.exc
    /\ op' = name /\ ret' = None /\ warned' = FALSE
    /\ hist' = [h EXCEPT !.ctor = <<>>]
    /\ UNCHANGED <<hostVars, loopVars, alive, genCalls, lookups>>

SetType(val) ==
    Assigned("set_type", AssignType(self, val),
             [hist EXCEPT !.argOk = (val \in network_types)])

SetMacaddr(val) ==
    Assigned("set_macaddr", AssignMacaddr(self, val),
             [hist EXCEPT !.macSet = TRUE, !.macReads = 0, !.firstMac = None,
                          !.argOk = (val \notin BadMacs)])

\* A network name set_network is to accept: no name, or (with a connection)
\* the name of a network that is active now.
NetOk(val) == ~hasConn \/ val = None \/ (val \in NetNames /\ nets[val] = "active")

NetNote(r, val, toNetwork) ==
    [hist EXCEPT !.argOk = (toNetwork => NetOk(val)),
                 !.netChecked = IF toNetwork /\ r.exc = None
                                THEN val \in NetNames /\ nets[val] = "active"
                                ELSE @]

SetNetwork(val) ==
    LET r == AssignNetwork(self, Conn, hasConn, val)
    IN  Assigned("set_network", r, NetNote(r, val, TRUE))

SetBridge(val) == Assigned("set_bridge", AssignBridge(self, val), hist)

SetSource(val) ==
    LET r == set_source(self, Conn, hasConn, val)
    IN  Assigned("set_source", r, NetNote(r, val, type(self) = TYPE_VIRTUAL))

(***************************************************************************)
(* Reads, setup, rendering                                                 *)
(***************************************************************************)
ReadBridge ==
    /\ pc = "idle" /\ alive
    /\ LET r == bridge(self, hostBridge)
       IN  /\ r.looked => lookups < MaxLookups
           /\ self' = r.self
           /\ ret' = r.val
           /\ lookups' = IF r.looked THEN lookups + 1 ELSE lookups
           /\ hist' = NoteLookup(hist, r.looked)
    /\ op' = "get_bridge" /\ raised' = None /\ warned' = FALSE
    /\ UNCHANGED <<hostVars, loopVars, alive, genCalls>>

ReadSource ==
    /\ pc = "idle" /\ alive
    /\ LET r == get_source(self, hostBridge)
       IN  /\ r.looked => lookups < MaxLookups
           /\ self' = r.self
           /\ ret' = r.val
           /\ lookups' = IF r.looked THEN lookups + 1 ELSE lookups
           /\ hist' = NoteLookup(hist, r.looked)
    /\ op' = "get_source" /\ raised' = None /\ warned' = FALSE
    /\ UNCHANGED <<hostVars, loopVars, alive, genCalls>>

\* Whose interface the MAC matches when setup checks it.
SetupCase(mac) ==
    IF ~Truthy(mac) THEN "none"
    ELSE IF InUseBy(mac, {"active"}) THEN "running"
    ELSE IF InUseBy(mac, {"inactive"}) THEN "inactive"
    ELSE "free"

\* The rest of operation c once get_macaddr has filled self._random_mac (if
\* it had to): o is the object then.
Finish(c, o, h) ==
    /\ self' = o
    /\ op' = c
    /\ IF c = "setup"
       THEN /\ raised' = setup(o, Conn).exc
            /\ warned' = setup(o, Conn).warned
            /\ ret' = None
            /\ hist' = [NoteRead(h, macaddr(o)) EXCEPT !.setupCase = SetupCase(macaddr(o))]
       ELSE /\ raised' = None
            /\ warned' = FALSE
            /\ ret' = IF c = "_get_xml_config" THEN _get_xml_config(o, hostBridge)
                      ELSE macaddr(o)
            /\ hist' = NoteRead(h, macaddr(o))

\* What operation c does before it reads self.macaddr: _get_xml_config reads
\* self.bridge for an interface of type bridge.
BeforeMac(c, o) ==
    IF c = "_get_xml_config" /\ type(o) = TYPE_BRIDGE THEN bridge(o, hostBridge)
    ELSE Ok(o, None)

\* obj.macaddr, obj.setup(), obj._get_xml_config(): each reads self.macaddr,
\* and get_macaddr calls generate_mac when NeedsGen.
Begin(c) ==
    /\ pc = "idle" /\ alive
    /\ LET pre == BeforeMac(c, self)
           h == NoteLookup(hist, pre.looked)
       IN  /\ pre.looked => lookups < MaxLookups
           /\ lookups' = IF pre.looked THEN lookups + 1 ELSE lookups
           /\ IF ~NeedsGen(pre.self)
              THEN /\ Finish(c, pre.self, h)
                   /\ genCalls' = genCalls
              ELSE /\ genCalls < MaxGenCalls
                   /\ genCalls' = genCalls + 1
                   /\ \E val \in generate_mac(Conn) :
                         Finish(c, [pre.self EXCEPT !._random_mac = val], NoteGen(h, val))
    /\ UNCHANGED <<hostVars, loopVars, alive>>

ReadMacaddr == Begin("get_macaddr")
Setup == Begin("setup")
Render == Begin("_get_xml_config")

(***************************************************************************)
(* The static methods called on their own; generate_mac step by step       *)
(***************************************************************************)
\* VirtualNetworkInterface.generate_mac(conn): the call, up to its loop
GenerateMac ==
    /\ pc = "idle" /\ ~alive
    /\ IF predictable
       THEN /\ ret' = PredictableMac /\ op' = "generate_mac"
            /\ hist' = NoteGen(hist, PredictableMac)
            /\ pc' = "idle" /\ tries' = 0 /\ nconf' = 0
       ELSE /\ pc' = "gen" /\ tries' = 0 /\ nconf' = 0
            /\ ret' = None /\ op' = "generate_mac" /\ hist' = hist
    /\ UNCHANGED <<hostVars, alive, self, raised, warned, genCalls, lookups>>

\* One iteration of its loop, and its return when the loop ends.
GenStep ==
    /\ pc = "gen"
    /\ \E mac \in _random_mac(Conn) :
          LET it == generate_mac_iter(Conn, mac, tries)
          IN  /\ tries' = tries + 1
              /\ nconf' = IF it.conflict THEN nconf + 1 ELSE nconf
              /\ pc' = IF it.done THEN "idle" ELSE "gen"
              /\ ret' = IF it.done THEN it.val ELSE ret
              /\ hist' = IF it.done THEN NoteGen(hist, it.val) ELSE hist
    /\ UNCHANGED <<hostVars, alive, self, op, raised, warned, genCalls, lookups>>

\* VirtualNetworkInterface.is_conflict_net(conn, searchmac), called on its own
CheckConflict(searchmac) ==
    /\ pc = "idle" /\ ~alive
    /\ LET r == is_conflict_net(Conn, searchmac)
       IN  hist' = [hist EXCEPT !.chkMac = searchmac, !.chkFatal = r[1],
                                !.chkMsg = r[2],
                                !.chkInUse = (searchmac # None
                                              /\ InUseBy(searchmac, Defined))]
    /\ op' = "is_conflict_net" /\ ret' = None
    /\ tries' = 0 /\ nconf' = 0
    /\ UNCHANGED <<hostVars, pc, alive, self, raised, warned, genCalls, lookups>>

(***************************************************************************)
(* Specifications                                                          *)
(***************************************************************************)
\* XML fragments an object is parsed from, as what their locations hold.
DocBridge == [NoXml EXCEPT !.type = TYPE_BRIDGE, !.mac = Upper(MacQemuAB),
                           !.bridge = <<"br0">>]
DocBare == [NoXml EXCEPT !.type = TYPE_BRIDGE]
DocMcast == [NoXml EXCEPT !.type = <<"mcast">>, !.mac = MacOther]
ParseDocs == {DocBridge, DocBare, DocMcast}

NoGuests == [g \in Guests |-> [state |-> "undefined", nics |-> Empty]]

InitObject ==
    /\ alive = FALSE /\ self = Blank(FALSE, NoXml)
    /\ pc = "idle" /\ tries = 0 /\ nconf = 0
    /\ op = "none" /\ ret = None /\ raised = None /\ warned = FALSE
    /\ genCalls = 0 /\ lookups = 0 /\ hist = HistInit

GuestsChange(lists) ==
    \/ \E g \in Guests, nics \in lists : DefineGuest(g, nics)
    \/ \E g \in Guests : StartGuest(g)
    \/ \E g \in Guests : StopGuest(g)
    \/ \E g \in Guests : UndefineGuest(g)

\* The MAC address of one object over its life: construction, assignment,
\* reads, setup, against a host whose guests come and go.
Init ==
    /\ hasConn = TRUE
    /\ connType = <<"Q", "E", "M", "U">>
    /\ predictable \in BOOLEAN
    /\ guests = NoGuests
    /\ nets = [n \in NetNames |-> "active"]
    /\ hostBridge = None
    /\ InitObject

Next ==
    \/ \E mac \in {None, MacQemuAB} : Construct(mac, TYPE_USER, None, None, None)
    \/ Parse(DocBridge)
    \/ \E val \in {None, MacQemuAB, MacFive} : SetMacaddr(val)
    \/ ReadMacaddr
    \/ Setup
    \/ GuestsChange({<<Upper(MacQemuAB)>>, <<MacOther, MacQemu01>>})

Spec == Init /\ [][Next]_vars

\* The bridge default, the kind and the rendered fragment, on a predictable
\* connection (the generated MAC is then the fixed one).
InitBridge ==
    /\ hasConn = TRUE
    /\ connType = <<"Q", "E", "M", "U">>
    /\ predictable = TRUE
    /\ guests = NoGuests
    /\ nets = [n \in NetNames |-> "active"]
    /\ hostBridge = None
    /\ InitObject

NextBridge ==
    \/ \E mac \in {None, MacQemuAB}, ty \in network_types, br \in {None, <<"br0">>} :
          Construct(mac, ty, br, IF ty = TYPE_VIRTUAL THEN <<"default">> ELSE None, None)
    \/ \E doc \in ParseDocs : Parse(doc)
    \/ \E val \in {TYPE_BRIDGE, TYPE_VIRTUAL, TYPE_ETHERNET} : SetType(val)
    \/ \E val \in {None, Empty, <<"br1">>} : SetBridge(val)
    \/ SetNetwork(None)
    \/ ReadBridge
    \/ ReadSource
    \/ ReadMacaddr
    \/ Render
    \/ \E b \in {None} \cup BridgeNames : BridgeChange(b)

SpecBridge == InitBridge /\ [][NextBridge]_vars

\* Construction and the validating assignments.
InitAssign ==
    /\ hasConn \in BOOLEAN
    /\ connType = <<"Q", "E", "M", "U">>
    /\ predictable = FALSE
    /\ guests = NoGuests
    /\ nets = [n \in NetNames |-> "absent"]
    /\ hostBridge = None
    /\ InitObject

TypeInputs == network_types \cup {<<"hostdev">>}
NetInputs == {None, Empty, <<"nonet">>} \cup NetNames

NextAssign ==
    \/ \E mac \in {None, MacQemuAB, MacFive}, ty \in TypeInputs,
          net \in {None, <<"default">>} : Construct(mac, ty, None, net, None)
    \/ Parse(DocMcast)
    \/ \E val \in {TYPE_BRIDGE, TYPE_VIRTUAL, <<"hostdev">>} : SetType(val)
    \/ \E val \in {None, Upper(MacQemuAB)} \cup BadMacs : SetMacaddr(val)
    \/ \E val \in NetInputs : SetNetwork(val)
    \/ \E val \in {None, <<"default">>} : SetSource(val)
    \/ \E st \in {"absent", "inactive", "active"} : NetChange(<<"default">>, st)

SpecAssign == InitAssign /\ [][NextAssign]_vars

\* generate_mac called on its own, its loop step by step, on any connection.
InitGen ==
    /\ hasConn = TRUE
    /\ connType \in ConnTypes
    /\ predictable \in BOOLEAN
    /\ guests = NoGuests
    /\ nets = [n \in NetNames |-> "active"]
    /\ hostBridge = None
    /\ InitObject

NextGen ==
    \/ GenerateMac
    \/ GenStep
    \/ GuestsChange({<<Upper(MacQemuAB)>>, <<MacOther, MacQemu01>>})

SpecGen == InitGen /\ [][NextGen]_vars

\* is_conflict_net called on its own, on any host.
InitConflict ==
    /\ hasConn = TRUE
    /\ connType \in ConnTypes
    /\ predictable = FALSE
    /\ guests = NoGuests
    /\ nets = [n \in NetNames |-> "active"]
    /\ hostBridge = None
    /\ InitObject

NextConflict ==
    \/ \E mac \in {None, Empty, MacQemuAB, Upper(MacQemuAB), MacQemu01, MacXenAB,
                   MacOther} : CheckConflict(mac)
    \/ GuestsChange(NicLists)

SpecConflict == InitConflict /\ [][NextConflict]_vars

(***************************************************************************)
(* Properties                                                              *)
(***************************************************************************)
Setters == {"set_type", "set_macaddr", "set_network", "set_source"}

\* C1: setup on an interface with a MAC aborts with a fatal error when the
\* MAC is that of an interface of a running guest, and only logs a warning,
\* raising nothing, when it is that of an interface of an inactive guest only.
C1_SetupSeverity ==
    op = "setup" =>
        /\ hist.setupCase = "running" => raised = RuntimeError
        /\ hist.setupCase = "inactive" => raised = None /\ warned

\* C2: on a fresh object given no MAC, with no set_macaddr since, however
\* many reads of macaddr were made and whatever the host was at each,
\* generate_mac was invoked exactly once and a read returns what the first
\* read returned.
C2_GenerateOnce ==
    (alive /\ ~self.parse /\ ~hist.macSet /\ hist.macReads >= 1) =>
        /\ genCalls = 1
        /\ op = "get_macaddr" => ret = hist.firstMac

\* C3: on a connection that is not predictable a call of generate_mac ends
\* within MaxTries attempts; it returns the first drawn address that no
\* interface of a defined guest had when it was checked, every earlier
\* attempt having conflicted, and it returns None exactly when all MaxTries
\* attempts conflicted, after exactly MaxTries attempts.
C3_BoundedGeneration ==
    ~predictable =>
        /\ tries <= MaxTries /\ nconf <= tries
        /\ (op = "generate_mac" /\ pc = "idle") =>
              /\ ret = None <=> nconf = MaxTries
              /\ ret = None => tries = MaxTries
              /\ ret # None => /\ nconf = tries - 1
                               /\ hist.genFree
                               /\ ret \in _random_mac(Conn)

\* The values generate_mac(conn) names are those the loop returns: each
\* return of the loop is one of them (the host does not change in a call).
GenerateMacSummary ==
    [][(pc = "gen" /\ pc' = "idle") => ret' \in generate_mac(Conn)]_vars

C3_Witness ==
    /\ ~predictable /\ op = "generate_mac" /\ pc = "idle"
    /\ ret = None /\ tries = MaxTries /\ nconf = MaxTries

\* A candidate address of the form validate_macaddr accepts.
WellFormed(mac) == mac # None /\ validate_macaddr(mac)

C5_NetworkNameRequired ==
    (op = "__init__" /\ hist.ctor # <<>> /\ hist.ctor[4] = None) =>
        /\ hist.ctor[2] = TYPE_VIRTUAL => raised = ValueError /\ ~alive
        /\ (/\ hist.ctor[2] \in network_types \ {TYPE_VIRTUAL}
            /\ hist.ctor[1] \in {None} \cup GoodMacs)
              => raised = None /\ alive /\ self._type = hist.ctor[2]

C5_Witness ==
    /\ op = "__init__" /\ hist.ctor # <<>> /\ hist.ctor[4] = None
    /\ hist.ctor[2] = TYPE_VIRTUAL /\ hist.ctor[1] = None
    /\ raised = ValueError /\ ~alive

\* C6: is_conflict_net on a null or an empty candidate returns (False, None)
\* whatever interfaces, with or without a MAC, the defined guests have.
C6_NullOrEmptyNoConflict ==
    (op = "is_conflict_net" /\ hist.chkMac \in {None, Empty}) =>
        ~hist.chkFatal /\ hist.chkMsg = None

HasSource(xml) ==
    \E i \in 1..Len(xml) :
        xml[i] \in {"      <source bridge='", "      <source network='",
                    "      <source dev='"}

\* C7: the rendered fragment has a <source> element exactly when the source
\* value of the current kind is present (none for kind user).
C7_SourceOnlyWhenPresent ==
    op = "_get_xml_config" =>
        (HasSource(ret) <=> Truthy(get_source(self, hostBridge).val))

\* The outcome of the last assignment: a configuration error exactly when
\* the value was not one to accept.
C8_Rejected ==
    (op \in Setters) =>
        /\ raised \in {None, ValueError}
        /\ raised = ValueError <=> ~hist.argOk

\* The kind the object holds is in the enum, and the network name it holds
\* was an active network when assigned (with a connection).
C8_Fields ==
    alive =>
        /\ self._type # None => self._type \in network_types
        /\ ~self.parse => self._type \in network_types
        /\ (hasConn /\ Truthy(self._network)) => hist.netChecked

C9_LookupOnce ==
    /\ lookups <= 1
    /\ lookups = 1 => /\ self._default_bridge # None
                      /\ PyOr(self._default_bridge, None) = hist.lookupResult
    /\ (/\ alive /\ ~self.parse /\ op = "get_bridge"
        /\ ~Truthy(self._bridge) /\ self._type = TYPE_BRIDGE)
          => lookups = 1 /\ ret = hist.lookupResult

C9_Witness ==
    /\ alive /\ ~self.parse /\ op = "get_bridge" /\ lookups = 1
    /\ self._default_bridge = PyFalse /\ ret = None /\ hostBridge # None

\* C10: on an object built by parsing, construction validates nothing and
\* reads of macaddr and bridge make no call of generate_mac and no lookup
\* of the default bridge, leave both caches as they were, and return what
\* the XML holds for the field.
C10_ParseIsPassive ==
    (alive /\ self.parse) =>
        /\ genCalls = 0 /\ lookups = 0
        /\ self._random_mac = None /\ self._default_bridge = None
        /\ op = "parse" => raised = None
        /\ op = "get_macaddr" => ret = self.xml.mac
        /\ op = "get_bridge" => ret = self.xml.bridge

C10_Witness ==
    /\ alive /\ self.parse /\ op = "get_macaddr" /\ ret = None
    /\ self.xml = DocBare /\ hist.macReads = 2

====
